---- MODULE Spec2Model ----
(***************************************************************************)
(* The simulated program memory of the C interpreter                       *)
(* (interpreter/interpreter/memory.py): Scope, Frame, Stack and Memory.    *)
(*                                                                         *)
(* A Scope is its address table, a function from names to addresses.  A    *)
(* Frame is its frame_name and the chain of its scopes from the base scope *)
(* (index 1) to curr_scope (the last one); the parent_scope of the scope   *)
(* at index d is the scope at index d-1, and an empty chain is             *)
(* curr_scope = None.  Stack.curr_frame is an index into Stack.frames,     *)
(* 0 standing for None.  A Python exception is an outcome of the           *)
(* operation: the operation is recorded in op with the exception's name in *)
(* op.err, and the state keeps what the code had assigned before raising.  *)
(***************************************************************************)
EXTENDS Integers, Sequences, FiniteSets, TLC

VARIABLES
    global_scope,       \* Memory.global_scope: name -> address
    frames,             \* Memory.stack.frames: sequence of Frames
    curr_frame,         \* Memory.stack.curr_frame: index into frames, 0 = None
    raw_memory,         \* Memory.raw_memory: address -> value
    next_free_address,  \* Memory.next_free_address
    issued,             \* history: the addresses malloc has returned, in order
    op                  \* history: the last operation and its outcome

vars == <<global_scope, frames, curr_frame, raw_memory, next_free_address,
          issued, op>>

(***************************************************************************)
(* Bounds of the model and the inputs of the operations.                   *)
(***************************************************************************)
MaxBytes == 8
MaxScopes == 2

STARTING_ADDRESS == 1000000

Names == {"x", "y"}
FrameNames == {"f"}

\* A type name is the sequence of its characters.
T_int == <<"i", "n", "t">>
T_intptr == <<"i", "n", "t", "*">>
T_struct == <<"S">>
\* The declarations the evaluator makes: (type name, variable name)
DeclareInputs == {<<T_int, "x">>, <<T_intptr, "y">>, <<T_struct, "y">>}

(***************************************************************************)
(* The type layer (interpreter/interpreter/types.py), which memory.py      *)
(* imports: sizeof, types_py, Number and Pointer.  A value is              *)
(* <<kind, type name, content>>.                                           *)
(***************************************************************************)
types_py == {<<"c", "h", "a", "r">>, T_int,
             <<"f", "l", "o", "a", "t">>, <<"d", "o", "u", "b", "l", "e">>}

sizeof(type_name) ==
    IF type_name[Len(type_name)] = "*" THEN 8
    ELSE IF type_name = <<"c", "h", "a", "r">> THEN 1
    ELSE IF type_name = <<"d", "o", "u", "b", "l", "e">> THEN 8
    ELSE 4

\* The content of a default number is not fixed by this layer.
Number(type_name) == {<<"Number", type_name, 0>>}
Pointer(type_name) == {<<"Pointer", type_name, 0>>}
None == <<"None", <<>>, 0>>

UserValues == {<<"Number", T_int, 7>>}
AddressInputs == {STARTING_ADDRESS + 4}

(***************************************************************************)
(* Scope                                                                   *)
(***************************************************************************)
EmptyScope == [k \in {} |-> 0]

\* Mutant of Scope_setitem: a key the scope holds keeps its value.
Scope_setitem_keep(scope, key, value) ==
    [k \in DOMAIN scope \cup {key} |->
        IF k \in DOMAIN scope THEN scope[k] ELSE value]

Scope_setitem(scope, key, value) ==
    [k \in DOMAIN scope \cup {key} |-> IF k = key THEN value ELSE scope[k]]

Scope_contains(scope, key) == key \in DOMAIN scope

(***************************************************************************)
(* Frame                                                                   *)
(***************************************************************************)
\* Mutant of Frame_init: the base scope's parent is the caller's curr_scope.
Frame_init_inherits(frame_name) ==
    [frame_name |-> frame_name,
     scopes |-> (IF frames = <<>> THEN <<>> ELSE frames[Len(frames)].scopes)
                \o <<EmptyScope>>]

Frame_init(frame_name) ==
    [frame_name |-> frame_name, scopes |-> <<EmptyScope>>]

Frame_new_scope(frame) ==
    [frame EXCEPT !.scopes = Append(@, EmptyScope)]

\* Mutant of Frame_del_scope: the bindings of the scope that is left are
\* handed to its parent.
Frame_del_scope_merge(frame) ==
    LET n == Len(frame.scopes)
    IN  IF n < 2 THEN [frame EXCEPT !.scopes = SubSeq(@, 1, n - 1)]
        ELSE [frame EXCEPT !.scopes =
                [d \in 1..(n - 1) |->
                    IF d < n - 1 THEN frame.scopes[d]
                    ELSE [k \in DOMAIN frame.scopes[n] \cup
                                DOMAIN frame.scopes[d] |->
                            IF k \in DOMAIN frame.scopes[n]
                            THEN frame.scopes[n][k]
                            ELSE frame.scopes[d][k]]]]

Frame_del_scope(frame) ==
    [frame EXCEPT !.scopes = SubSeq(@, 1, Len(@) - 1)]

\* frame.curr_scope[key] = value
Frame_setitem(frame, key, value) ==
    [frame EXCEPT !.scopes[Len(frame.scopes)] = Scope_setitem(@, key, value)]

\* Mutant of Frame_walk: the chain is searched from the base scope inwards.
Frame_walk_base_first(frame, d, key) ==
    LET hits == {e \in 1..d : Scope_contains(frame.scopes[e], key)}
    IN  IF hits = {} THEN 0 ELSE CHOOSE e \in hits : \A g \in hits : e <= g

\* The loop of Frame.find_key from the scope at index d outwards; 0 is None.
RECURSIVE Frame_walk(_, _, _)
Frame_walk(frame, d, key) ==
    IF d = 0 THEN 0
    ELSE IF Scope_contains(frame.scopes[d], key) THEN d
    ELSE Frame_walk(frame, d - 1, key)

Frame_find_key(frame, key) == Frame_walk(frame, Len(frame.scopes), key)

\* Python objects as the == of a list membership test sees them: a str is
\* equal to an equal str, a Scope (which defines no __eq__) only to itself,
\* here the scope at index d of its frame.
StrObj(s) == [class |-> "str", str |-> s, id |-> 0]
ScopeObj(d) == [class |-> "Scope", str |-> "", id |-> d]

\* Frame._get_scopes: the Scope objects from curr_scope out to the base.
Frame_get_scopes(frame) ==
    [k \in 1..Len(frame.scopes) |-> ScopeObj(Len(frame.scopes) - k + 1)]

\* Frame.__contains__: key in self._get_scopes()
Frame_contains(frame, key) ==
    \E k \in DOMAIN Frame_get_scopes(frame) :
        Frame_get_scopes(frame)[k] = StrObj(key)

(***************************************************************************)
(* Stack                                                                   *)
(***************************************************************************)
Stack_is_empty == curr_frame = 0

\* Mutant of Stack_new_frame: the new frame is put under the others.
Stack_new_frame_front(frame_name) == <<Frame_init(frame_name)>> \o frames

Stack_new_frame(frame_name) == Append(frames, Frame_init(frame_name))

\* Mutant of Stack_del_frame: the oldest frame is removed, not the top one.
Stack_del_frame_first == SubSeq(frames, 2, Len(frames))

Stack_del_frame == SubSeq(frames, 1, Len(frames) - 1)

\* The number of scopes the frames from index i on hold; a frame whose
\* curr_scope is None counts as one.
RECURSIVE ScopeCount(_)
ScopeCount(i) ==
    IF i > Len(frames) THEN 0
    ELSE (IF frames[i].scopes = <<>> THEN 1 ELSE Len(frames[i].scopes))
         + ScopeCount(i + 1)

(***************************************************************************)
(* Memory: name resolution                                                 *)
(***************************************************************************)
\* A scope is referred to as <<0, 0>> (the global scope) or <<i, d>> (the
\* scope at index d of frame i).
GlobalRef == <<0, 0>>

ScopeAt(ref) ==
    IF ref = GlobalRef THEN global_scope ELSE frames[ref[1]].scopes[ref[2]]

\* Mutant of Memory_find_key: the global scope is consulted first.
Memory_find_key_global_first(key) ==
    IF Stack_is_empty \/ Scope_contains(global_scope, key)
    THEN [err |-> "ok", scope |-> GlobalRef]
    ELSE LET d == Frame_find_key(frames[curr_frame], key)
         IN  IF d # 0 THEN [err |-> "ok", scope |-> <<curr_frame, d>>]
             ELSE [err |-> "RuntimeError", scope |-> GlobalRef]

Memory_find_key(key) ==
    IF Stack_is_empty THEN [err |-> "ok", scope |-> GlobalRef]
    ELSE LET d == Frame_find_key(frames[curr_frame], key)
         IN  IF d # 0 THEN [err |-> "ok", scope |-> <<curr_frame, d>>]
             ELSE IF Scope_contains(global_scope, key)
                  THEN [err |-> "ok", scope |-> GlobalRef]
                  ELSE [err |-> "RuntimeError", scope |-> GlobalRef]

\* Mutant of Memory_get_address: a missing key reads as address 0.
Memory_get_address_default(key) ==
    LET found == Memory_find_key(key)
        scope == ScopeAt(found.scope)
    IN  [err |-> "ok",
         addr |-> IF Scope_contains(scope, key) THEN scope[key] ELSE 0,
         scope |-> found.scope]

Memory_get_address(key) ==
    LET found == Memory_find_key(key)
    IN  IF found.err # "ok"
        THEN [err |-> found.err, addr |-> 0, scope |-> found.scope]
        ELSE IF Scope_contains(ScopeAt(found.scope), key)
             THEN [err |-> "ok", addr |-> ScopeAt(found.scope)[key],
                   scope |-> found.scope]
             ELSE [err |-> "KeyError", addr |-> 0, scope |-> found.scope]

(***************************************************************************)
(* Memory: allocation and raw storage                                      *)
(***************************************************************************)
\* Mutant of malloc: the cursor is not advanced.
malloc_no_advance(block_sz) ==
    [ret |-> next_free_address, next |-> next_free_address]

malloc(block_sz) ==
    [ret |-> next_free_address, next |-> next_free_address + block_sz]

\* Mutant of Store: the entries at other addresses are dropped.
Store_only(mem, address, value) == [a \in {address} |-> value]

\* Mutant of Store: None is not stored.
Store_skip_none(mem, address, value) ==
    IF value = None THEN mem
    ELSE [a \in DOMAIN mem \cup {address} |->
            IF a = address THEN value ELSE mem[a]]

Store(mem, address, value) ==
    [a \in DOMAIN mem \cup {address} |-> IF a = address THEN value ELSE mem[a]]

\* Mutant of Classify: the registered names are tested before the '*'.
Classify_numeric_first(var_type, registry) ==
    IF var_type \in registry THEN Number(var_type)
    ELSE IF var_type[Len(var_type)] = "*" THEN Pointer(var_type)
    ELSE {None}

\* The if/elif/else of declare, with the set of registered names registry.
Classify(var_type, registry) ==
    IF var_type[Len(var_type)] = "*" THEN Pointer(var_type)
    ELSE IF var_type \in registry THEN Number(var_type)
    ELSE {None}

\* The values declare may store for a type.
DeclareValues(var_type) == Classify(var_type, types_py)

(***************************************************************************)
(* History: the last operation, its arguments and its outcome.  addr is    *)
(* the address it allocated, resolved or was given, value the value it     *)
(* stored or returned, scope the scope the name resolved in, err the       *)
(* exception it raised ("ok" when it returned).                            *)
(***************************************************************************)
NoValue == <<"", <<>>, 0>>

Op(kind, key, addr, value, scope, err) ==
    [kind |-> kind, key |-> key, addr |-> addr, value |-> value,
     scope |-> scope, err |-> err]

(***************************************************************************)
(* The initial state: Memory.__init__                                      *)
(***************************************************************************)
Init ==
    /\ global_scope = EmptyScope
    /\ frames = <<>>
    /\ curr_frame = 0
    /\ raw_memory = [a \in {} |-> NoValue]
    /\ next_free_address = STARTING_ADDRESS
    /\ issued = <<>>
    /\ op = Op("init", "", 0, NoValue, GlobalRef, "ok")

(***************************************************************************)
(* Memory.declare.  The right-hand side, malloc, is evaluated before the   *)
(* item assignment: with curr_scope = None the assignment raises           *)
(* TypeError after the cursor has moved.                                   *)
(***************************************************************************)
\* Mutant of InitAddress: the cursor, which malloc has moved, is used.
InitAddress_cursor(m) == m.next

\* scope[var_name] read back after the binding: the address malloc returned.
InitAddress(m) == m.ret

\* The scope declare binds in: the global scope or the current frame's
\* curr_scope (<<curr_frame, 0>> is curr_scope = None).
DeclareScope ==
    IF Stack_is_empty THEN GlobalRef
    ELSE <<curr_frame, Len(frames[curr_frame].scopes)>>

declare(var_type, var_name) ==
    /\ next_free_address < STARTING_ADDRESS + MaxBytes
    /\ LET m == malloc(sizeof(var_type))
           scope == DeclareScope
       IN  /\ next_free_address' = m.next
           /\ issued' = Append(issued, m.ret)
           /\ IF scope # GlobalRef /\ scope[2] = 0
              THEN /\ op' = Op("declare", var_name, m.ret, NoValue, scope,
                               "TypeError")
                   /\ UNCHANGED <<global_scope, frames, raw_memory>>
              ELSE /\ IF scope = GlobalRef
                      THEN /\ global_scope' =
                                Scope_setitem(global_scope, var_name, m.ret)
                           /\ UNCHANGED frames
                      ELSE /\ frames' =
                                [frames EXCEPT ![curr_frame] =
                                    Frame_setitem(@, var_name, m.ret)]
                           /\ UNCHANGED global_scope
                   /\ \E v \in DeclareValues(var_type) :
                        /\ raw_memory' = Store(raw_memory, InitAddress(m), v)
                        /\ op' = Op("declare", var_name, m.ret, v, scope, "ok")
    /\ UNCHANGED curr_frame

(***************************************************************************)
(* Memory.set_at_address, Memory.get_at_address                            *)
(***************************************************************************)
set_at_address(address, value) ==
    /\ raw_memory' = Store(raw_memory, address, value)
    /\ op' = Op("set_at_address", "", address, value, GlobalRef, "ok")
    /\ UNCHANGED <<global_scope, frames, curr_frame, next_free_address, issued>>

\* Mutant of GetAt: the stored value is ignored, a new default is returned.
GetAt_fresh(address) ==
    {[mem |-> Store(raw_memory, address, v), ret |-> v] : v \in Number(T_int)}

\* Mutant of GetAt: the default of a missing address is returned, not stored.
GetAt_not_stored(address) ==
    IF address \notin DOMAIN raw_memory
    THEN {[mem |-> raw_memory, ret |-> v] : v \in Number(T_int)}
    ELSE {[mem |-> raw_memory, ret |-> raw_memory[address]]}

\* get_at_address(address): the memory it leaves and the value it returns.
GetAt(address) ==
    IF address \notin DOMAIN raw_memory
    THEN {[mem |-> Store(raw_memory, address, v), ret |-> v] :
            v \in Number(T_int)}
    ELSE {[mem |-> raw_memory, ret |-> raw_memory[address]]}

get_at_address(address) ==
    /\ \E g \in GetAt(address) :
        /\ raw_memory' = g.mem
        /\ op' = Op("get_at_address", "", address, g.ret, GlobalRef, "ok")
    /\ UNCHANGED <<global_scope, frames, curr_frame, next_free_address, issued>>

(***************************************************************************)
(* Memory.__setitem__, Memory.__getitem__                                  *)
(***************************************************************************)
\* Mutant of Memory_setitem: a value of another kind than the stored one is
\* refused.
Memory_setitem_checked(key, value) ==
    /\ LET r == Memory_get_address(key)
       IN  IF r.err # "ok"
           THEN /\ op' = Op("setitem", key, 0, value, r.scope, r.err)
                /\ UNCHANGED raw_memory
           ELSE IF r.addr \in DOMAIN raw_memory
                   /\ raw_memory[r.addr][1] # value[1]
           THEN /\ op' = Op("setitem", key, r.addr, value, r.scope,
                            "TypeError")
                /\ UNCHANGED raw_memory
           ELSE /\ raw_memory' = Store(raw_memory, r.addr, value)
                /\ op' = Op("setitem", key, r.addr, value, r.scope, "ok")
    /\ UNCHANGED <<global_scope, frames, curr_frame, next_free_address, issued>>

Memory_setitem(key, value) ==
    /\ LET r == Memory_get_address(key)
       IN  IF r.err # "ok"
           THEN /\ op' = Op("setitem", key, 0, value, r.scope, r.err)
                /\ UNCHANGED raw_memory
           ELSE /\ raw_memory' = Store(raw_memory, r.addr, value)
                /\ op' = Op("setitem", key, r.addr, value, r.scope, "ok")
    /\ UNCHANGED <<global_scope, frames, curr_frame, next_free_address, issued>>

Memory_getitem(key) ==
    /\ LET r == Memory_get_address(key)
       IN  IF r.err # "ok"
           THEN /\ op' = Op("getitem", key, 0, NoValue, r.scope, r.err)
                /\ UNCHANGED raw_memory
           ELSE \E g \in GetAt(r.addr) :
                /\ raw_memory' = g.mem
                /\ op' = Op("getitem", key, r.addr, g.ret, r.scope, "ok")
    /\ UNCHANGED <<global_scope, frames, curr_frame, next_free_address, issued>>

(***************************************************************************)
(* Memory.new_frame, Memory.del_frame                                      *)
(***************************************************************************)
new_frame(frame_name) ==
    /\ ScopeCount(1) < MaxScopes
    /\ frames' = Stack_new_frame(frame_name)
    /\ curr_frame' = Len(frames')
    /\ op' = Op("new_frame", frame_name, 0, NoValue, GlobalRef, "ok")
    /\ UNCHANGED <<global_scope, raw_memory, next_free_address, issued>>

del_frame ==
    /\ IF frames = <<>>
       THEN \* frames.pop(-1) on the empty list
            /\ op' = Op("del_frame", "", 0, NoValue, GlobalRef, "IndexError")
            /\ UNCHANGED <<frames, curr_frame>>
       ELSE /\ frames' = Stack_del_frame
            /\ curr_frame' = IF Len(frames') = 0 THEN 0 ELSE Len(frames')
            /\ op' = Op("del_frame", "", 0, NoValue, GlobalRef, "ok")
    /\ UNCHANGED <<global_scope, raw_memory, next_free_address, issued>>

(***************************************************************************)
(* Memory.new_scope, Memory.del_scope.  With curr_frame = None, or with    *)
(* curr_scope = None, the attribute access raises AttributeError.          *)
(***************************************************************************)
\* Mutant of new_scope: with no frame the call returns and does nothing.
new_scope_silent ==
    /\ IF Stack_is_empty
       THEN /\ op' = Op("new_scope", "", 0, NoValue, GlobalRef, "ok")
            /\ UNCHANGED frames
       ELSE IF frames[curr_frame].scopes = <<>>
       THEN /\ op' = Op("new_scope", "", 0, NoValue, GlobalRef,
                        "AttributeError")
            /\ UNCHANGED frames
       ELSE /\ ScopeCount(1) < MaxScopes
            /\ frames' = [frames EXCEPT ![curr_frame] = Frame_new_scope(@)]
            /\ op' = Op("new_scope", "", 0, NoValue, GlobalRef, "ok")
    /\ UNCHANGED <<global_scope, curr_frame, raw_memory, next_free_address,
                   issued>>

new_scope ==
    /\ IF Stack_is_empty \/ frames[curr_frame].scopes = <<>>
       THEN /\ op' = Op("new_scope", "", 0, NoValue, GlobalRef,
                        "AttributeError")
            /\ UNCHANGED frames
       ELSE /\ ScopeCount(1) < MaxScopes
            /\ frames' = [frames EXCEPT ![curr_frame] = Frame_new_scope(@)]
            /\ op' = Op("new_scope", "", 0, NoValue, GlobalRef, "ok")
    /\ UNCHANGED <<global_scope, curr_frame, raw_memory, next_free_address,
                   issued>>

del_scope ==
    /\ IF Stack_is_empty \/ frames[curr_frame].scopes = <<>>
       THEN /\ op' = Op("del_scope", "", 0, NoValue, GlobalRef,
                        "AttributeError")
            /\ UNCHANGED frames
       ELSE /\ frames' = [frames EXCEPT ![curr_frame] = Frame_del_scope(@)]
            /\ op' = Op("del_scope", "", 0, NoValue, GlobalRef, "ok")
    /\ UNCHANGED <<global_scope, curr_frame, raw_memory, next_free_address,
                   issued>>

Next ==
    \/ \E d \in DeclareInputs : declare(d[1], d[2])
    \/ \E a \in AddressInputs, v \in UserValues : set_at_address(a, v)
    \/ \E a \in AddressInputs : get_at_address(a)
    \/ \E n \in Names, v \in UserValues : Memory_setitem(n, v)
    \/ \E n \in Names : Memory_getitem(n)
    \/ \E f \in FrameNames : new_frame(f)
    \/ del_frame
    \/ new_scope
    \/ del_scope

Spec == Init /\ [][Next]_vars

(***************************************************************************)
(* Vocabulary of the properties                                            *)
(***************************************************************************)
\* The scope chain of the current frame, base scope first.
Chain == IF Stack_is_empty THEN <<>> ELSE frames[curr_frame].scopes

\* The depths of the current frame's chain that bind x, and the deepest.
Binders(x) == {d \in 1..Len(Chain) : x \in DOMAIN Chain[d]}
Innermost(x) == CHOOSE d \in Binders(x) : \A e \in Binders(x) : e <= d

\* x is bound in a block of the current frame (not its base scope) and also
\* in an enclosing scope of that frame or in the global scope.
Shadowed(x) ==
    /\ Binders(x) # {}
    /\ Innermost(x) >= 2
    /\ Binders(x) # {Innermost(x)} \/ x \in DOMAIN global_scope

InnerAddress(x) == Chain[Innermost(x)][x]

\* The binding the inner one hides: the next binding outwards in the chain,
\* and the global one when the chain has no other.
OuterScope(x) ==
    LET rest == Binders(x) \ {Innermost(x)}
    IN  IF rest # {}
        THEN <<curr_frame, CHOOSE d \in rest : \A e \in rest : e <= d>>
        ELSE GlobalRef

OuterAddress(x) == ScopeAt(OuterScope(x))[x]

Failed(r) == r.err # "ok"

(***************************************************************************)
(* C1 (as stated): once x is declared in a block while an enclosing scope  *)
(* or the global scope binds x, every resolution of x gives the inner      *)
(* binding's address until the matching leave_block: a step that is not    *)
(* that del_scope leaves x resolving to the inner binding (to the new one  *)
(* when the step redeclares x).                                            *)
(***************************************************************************)
C1_ShadowingUntilLeaveBlock ==
    [][\A x \in Names :
        (Shadowed(x) /\ op'.kind # "del_scope") =>
            /\ ~Failed(Memory_get_address(x)')
            /\ Memory_get_address(x)'.addr \in
                    {InnerAddress(x)} \cup
                    (IF op'.kind = "declare" THEN {op'.addr} ELSE {})]_vars

(***************************************************************************)
(* C1 (amended): while the frame of the block stays the current frame, x   *)
(* resolves to the inner binding, whose address is not the outer one's;    *)
(* reads and writes of x use the inner address and leave the value stored  *)
(* for the outer binding alone, as does every step but a write by address; *)
(* the del_scope that leaves the block makes x resolve to the outer        *)
(* binding again and changes no stored value.  Only enter_call and         *)
(* leave_call end this before the matching leave_block.                    *)
(***************************************************************************)
C1_ResolvesInner ==
    \A x \in Names :
        Shadowed(x) =>
            /\ Memory_get_address(x).err = "ok"
            /\ Memory_get_address(x).addr = InnerAddress(x)
            /\ InnerAddress(x) # OuterAddress(x)

C1_Step ==
    \A x \in Names :
        Shadowed(x) =>
            LET inner == InnerAddress(x)
                outer == OuterAddress(x)
            IN  /\ (op'.kind \in {"getitem", "setitem"} /\ op'.key = x) =>
                    /\ op'.err = "ok"
                    /\ op'.addr = inner
                    /\ raw_memory'[inner] = op'.value
                    /\ op'.kind = "getitem" => op'.value = raw_memory[inner]
                /\ op'.kind # "set_at_address" =>
                    raw_memory'[outer] = raw_memory[outer]
                /\ op'.kind \notin {"del_scope", "new_frame", "del_frame"} =>
                    /\ ~Failed(Memory_get_address(x)')
                    /\ Memory_get_address(x)'.addr \in
                            {inner} \cup
                            (IF op'.kind = "declare" THEN {op'.addr} ELSE {})
                /\ (op'.kind = "del_scope" /\ Innermost(x) = Len(Chain)) =>
                    /\ op'.err = "ok"
                    /\ Memory_get_address(x)' =
                            [err |-> "ok", addr |-> outer,
                             scope |-> OuterScope(x)]
                    /\ raw_memory' = raw_memory

C1_Shadowing == []C1_ResolvesInner /\ [][C1_Step]_vars

\* x is shadowed, the inner x has been written and the outer x has not.
C1_Witness ==
    /\ Shadowed("x")
    /\ op.kind = "setitem" /\ op.key = "x" /\ op.err = "ok"
    /\ raw_memory[InnerAddress("x")] = op.value
    /\ raw_memory[OuterAddress("x")] # op.value

(***************************************************************************)
(* C2: frame isolation.  new_frame leaves a current frame whose chain is   *)
(* one scope with no bindings.  With a frame on top, a name resolves only  *)
(* to a binding of the top frame's own chain or of the global scope; a     *)
(* name bound only in other frames of the stack, at any depth, does not    *)
(* resolve.                                                                *)
(***************************************************************************)
\* The frames under the top one that bind n, at some depth.
OtherFramesBinding(n) ==
    {i \in 1..(Len(frames) - 1) :
        \E d \in 1..Len(frames[i].scopes) : n \in DOMAIN frames[i].scopes[d]}

C2_FrameIsolation ==
    /\ (op.kind = "new_frame") =>
            /\ curr_frame = Len(frames)
            /\ Chain = <<EmptyScope>>
    /\ ~Stack_is_empty =>
        \A n \in Names :
            LET r == Memory_get_address(n)
            IN  /\ ~Failed(r) =>
                    \/ Binders(n) # {} /\ r.addr = Chain[Innermost(n)][n]
                    \/ /\ Binders(n) = {}
                       /\ n \in DOMAIN global_scope
                       /\ r.addr = global_scope[n]
                /\ (/\ OtherFramesBinding(n) # {}
                    /\ Binders(n) = {}
                    /\ n \notin DOMAIN global_scope) => Failed(r)
    /\ (op.kind \in {"getitem", "setitem"} /\ ~Stack_is_empty
            /\ Binders(op.key) = {} /\ op.key \notin DOMAIN global_scope) =>
        Failed(op)

\* A read of x fails in the top frame while the frame under it binds x.
C2_Witness ==
    /\ Len(frames) >= 2
    /\ curr_frame = Len(frames)
    /\ op.kind = "getitem" /\ op.key = "x" /\ Failed(op)
    /\ OtherFramesBinding("x") # {}

(***************************************************************************)
(* C3: a name bound neither in the current frame's chain nor in the global *)
(* scope never resolves to an address: get_address raises, and so do the   *)
(* read and the write of the name.  With an empty call stack the exception *)
(* is the KeyError of the global scope's table, with a frame on the stack  *)
(* the RuntimeError of find_key.                                           *)
(***************************************************************************)
Unbound(n) == Binders(n) = {} /\ n \notin DOMAIN global_scope

C3_FatalOnUnknownName ==
    /\ \A n \in Names :
        Unbound(n) =>
            /\ Memory_get_address(n).err =
                    (IF Stack_is_empty THEN "KeyError" ELSE "RuntimeError")
            /\ Memory_get_address(n).addr = 0
    /\ (op.kind \in {"getitem", "setitem"} /\ Unbound(op.key)) =>
            /\ op.err \in {"KeyError", "RuntimeError"}
            /\ op.addr = 0

\* The read of an undeclared name with nothing declared and no frame.
C3_Witness ==
    /\ Stack_is_empty
    /\ global_scope = EmptyScope
    /\ op.kind = "getitem" /\ op.err = "KeyError"

(***************************************************************************)
(* C4: an exit with nothing to pop is rejected.  del_frame with no frame,  *)
(* del_scope with no frame and del_scope with the current frame at its     *)
(* base scope each raise and change nothing, and no frame is ever left     *)
(* without a current scope.                                                *)
(***************************************************************************)
Range(f) == {f[i] : i \in DOMAIN f}

C4_PairedExitChecked ==
    [][/\ (op'.kind = "del_frame" /\ frames = <<>>) =>
            /\ Failed(op')
            /\ UNCHANGED <<global_scope, frames, curr_frame, raw_memory,
                           next_free_address>>
       /\ (op'.kind = "del_scope" /\ (Stack_is_empty \/ Len(Chain) <= 1)) =>
            /\ Failed(op')
            /\ UNCHANGED <<global_scope, frames, curr_frame, raw_memory,
                           next_free_address>>
       /\ \A i \in DOMAIN frames' : frames'[i].scopes # <<>>]_vars

(***************************************************************************)
(* C5: the addresses malloc returns are strictly increasing, so none is    *)
(* returned twice; the cursor is above all of them; every address bound in *)
(* a scope is one of them, and the address a declare binds is the last     *)
(* and largest.                                                            *)
(***************************************************************************)
\* The addresses bound in the global scope and in the scopes of the stack.
BoundAddresses ==
    Range(global_scope) \cup
    UNION {UNION {Range(frames[i].scopes[d]) : d \in DOMAIN frames[i].scopes} :
            i \in DOMAIN frames}

C5_MonotonicAddresses ==
    /\ \A i, j \in DOMAIN issued : i < j => issued[i] < issued[j]
    /\ \A i \in DOMAIN issued :
            STARTING_ADDRESS <= issued[i] /\ issued[i] < next_free_address
    /\ BoundAddresses \subseteq Range(issued)
    /\ (op.kind = "declare") =>
            /\ issued # <<>>
            /\ op.addr = issued[Len(issued)]
            /\ \A i \in 1..(Len(issued) - 1) : issued[i] < op.addr
            /\ op.err = "ok" => ScopeAt(op.scope)[op.key] = op.addr

\* A declare inside a block of a frame, after a declare at global scope.
C5_Witness ==
    /\ op.kind = "declare" /\ op.err = "ok"
    /\ op.scope # GlobalRef /\ op.scope[2] >= 2
    /\ Len(issued) >= 2
    /\ issued[1] \in Range(global_scope)

(***************************************************************************)
(* C6 (as stated): every key of raw storage is an address malloc has       *)
(* returned.                                                               *)
(***************************************************************************)
C6_RawKeysIssued == DOMAIN raw_memory \subseteq Range(issued)

(***************************************************************************)
(* C6 (amended): a key enters raw storage only as an address malloc has    *)
(* returned or as the address given to get_at_address or set_at_address:   *)
(* every key is an address malloc returned or one such a call was given.   *)
(* declare and the reads and writes by name add only returned addresses.   *)
(***************************************************************************)
C6_RawKeysIssuedOrGiven ==
    [][LET added == DOMAIN raw_memory' \ DOMAIN raw_memory
       IN  /\ DOMAIN raw_memory \subseteq DOMAIN raw_memory'
           /\ IF op'.kind \in {"get_at_address", "set_at_address"}
              THEN added \subseteq {op'.addr}
              ELSE added \subseteq Range(issued')]_vars

\* A key malloc has not returned, put there by a call by address, beside a
\* key that a declare put there.
C6_Witness ==
    /\ op.kind \in {"get_at_address", "set_at_address"}
    /\ op.addr \in DOMAIN raw_memory \ Range(issued)
    /\ Range(issued) # {}

(***************************************************************************)
(* C7: round trip.  A write of a name that resolves succeeds, and the read *)
(* of the same name that follows it at once returns the value written,     *)
(* from the same address, wherever the name resolves.                      *)
(***************************************************************************)
C7_RoundTrip ==
    [][/\ (op'.kind = "setitem" /\ ~Failed(Memory_get_address(op'.key))) =>
            /\ op'.err = "ok"
            /\ op'.addr = Memory_get_address(op'.key).addr
            /\ raw_memory'[op'.addr] = op'.value
       /\ (/\ op.kind = "setitem" /\ op.err = "ok"
           /\ op'.kind = "getitem" /\ op'.key = op.key) =>
            /\ op'.err = "ok"
            /\ op'.addr = op.addr
            /\ op'.value = op.value
            /\ raw_memory' = raw_memory]_vars

\* A value read back from the global scope through a frame.
C7_Witness ==
    /\ op.kind = "getitem" /\ op.err = "ok"
    /\ op.value \in UserValues
    /\ ~Stack_is_empty /\ op.scope = GlobalRef

(***************************************************************************)
(* C8 (as stated): get_at_address of an address without an entry stores a  *)
(* default number and returns it, and the entry then stays as it is        *)
(* through every step that is not a write to that address, a declare       *)
(* among them.                                                             *)
(***************************************************************************)
\* The step writes to address a: by address, or by a name resolving to a.
WritesTo(a) ==
    /\ op'.kind \in {"set_at_address", "setitem"}
    /\ op'.err = "ok"
    /\ op'.addr = a

\* The entry at a came from a read by address: malloc has not returned a
\* and the entry holds the default number.
LazyEntry(a) ==
    /\ a \in DOMAIN raw_memory
    /\ a \notin Range(issued)
    /\ raw_memory[a] \in Number(T_int)

C8_ReadAt ==
    op'.kind = "get_at_address" =>
        IF op'.addr \in DOMAIN raw_memory
        THEN op'.value = raw_memory[op'.addr] /\ raw_memory' = raw_memory
        ELSE /\ op'.value \in Number(T_int)
             /\ raw_memory' = Store(raw_memory, op'.addr, op'.value)

C8_StableThroughEveryStep ==
    [][/\ C8_ReadAt
       /\ \A a \in AddressInputs :
            (LazyEntry(a) /\ ~WritesTo(a)) =>
                /\ a \in DOMAIN raw_memory'
                /\ raw_memory'[a] = raw_memory[a]]_vars

(***************************************************************************)
(* C8 (amended): as above, but a declare whose allocation is that address  *)
(* counts as a write to it: declare initialises the address it allocates.  *)
(* Every entry, however it was made, stays as it is through every other    *)
(* step.                                                                   *)
(***************************************************************************)
C8_StableUninitializedReads ==
    [][/\ C8_ReadAt
       /\ \A a \in DOMAIN raw_memory :
            (~WritesTo(a) /\ ~(op'.kind = "declare" /\ op'.addr = a)) =>
                /\ a \in DOMAIN raw_memory'
                /\ raw_memory'[a] = raw_memory[a]]_vars

\* A second read by address of an entry that the first one made, with a
\* frame entered in between.
C8_Witness ==
    /\ op.kind = "get_at_address"
    /\ LazyEntry(op.addr)
    /\ op.value = raw_memory[op.addr]
    /\ frames # <<>>

(***************************************************************************)
(* C9: a call returns with the callee's names gone and nothing else        *)
(* changed.  While a frame is on the stack no step changes the global      *)
(* scope's table, and no step but a write by address or a write of a name  *)
(* that the frame's chain does not bind changes the value stored for a     *)
(* global name: declares and writes of the callee's own names, at any      *)
(* depth, leave it alone.  del_frame removes the top frame and only it,    *)
(* whatever blocks it had open, and changes no stored value; after it a    *)
(* name resolves in the caller's chain or in the global scope as before    *)
(* the call, and a name bound nowhere else raises.  A read of a global     *)
(* name on the empty stack returns the value stored for it.                *)
(***************************************************************************)
\* The step is made inside a call and is not a write from outside the
\* callee's own names.
CalleeStep ==
    /\ ~Stack_is_empty
    /\ op'.kind # "set_at_address"
    /\ ~(op'.kind = "setitem" /\ Binders(op'.key) = {})

C9_Step ==
    /\ ~Stack_is_empty => global_scope' = global_scope
    /\ CalleeStep =>
        \A g \in DOMAIN global_scope :
            /\ global_scope[g] \in DOMAIN raw_memory'
            /\ raw_memory'[global_scope[g]] = raw_memory[global_scope[g]]
    /\ (op'.kind = "del_frame" /\ frames # <<>>) =>
        /\ op'.err = "ok"
        /\ frames' = SubSeq(frames, 1, Len(frames) - 1)
        /\ curr_frame' = Len(frames')
        /\ raw_memory' = raw_memory
        /\ \A n \in Names :
            LET r == Memory_get_address(n)'
            IN  IF Binders(n)' # {}
                THEN r.err = "ok" /\ r.scope[1] = Len(frames) - 1
                ELSE IF n \in DOMAIN global_scope
                     THEN r = [err |-> "ok", addr |-> global_scope[n],
                               scope |-> GlobalRef]
                     ELSE Failed(r)
    /\ (op'.kind = "getitem" /\ Stack_is_empty) =>
        IF op'.key \in DOMAIN global_scope
        THEN /\ op'.err = "ok"
             /\ op'.addr = global_scope[op'.key]
             /\ op'.value = raw_memory[op'.addr]
        ELSE Failed(op')

C9_CallReturnDiscardsCallee == [][C9_Step]_vars

\* After the return of a call that declared y and wrote it, with the global
\* x never written: the read of x returns x's default, y does not resolve
\* and y's value is still in raw storage.
C9_Witness ==
    /\ Stack_is_empty
    /\ op.kind = "getitem" /\ op.key = "x" /\ op.err = "ok"
    /\ op.value \in Number(T_int)
    /\ "y" \notin DOMAIN global_scope
    /\ Failed(Memory_get_address("y"))
    /\ \E a \in Range(issued) \ BoundAddresses :
            a \in DOMAIN raw_memory /\ raw_memory[a] \in UserValues

(***************************************************************************)
(* C10: local chain first, global scope last.  With a frame on the stack,  *)
(* a name bound in the current frame's chain resolves to the innermost     *)
(* scope of the chain that binds it, whether or not the global scope binds *)
(* it too; a name the global scope binds resolves to the global binding    *)
(* exactly when no scope of the chain binds it.  The reads and writes by   *)
(* name resolve the same way.                                              *)
(***************************************************************************)
C10_LocalFirstGlobalLast ==
    ~Stack_is_empty =>
        /\ \A n \in Names :
            LET r == Memory_get_address(n)
            IN  /\ Binders(n) # {} =>
                    r = [err |-> "ok", addr |-> Chain[Innermost(n)][n],
                         scope |-> <<curr_frame, Innermost(n)>>]
                /\ n \in DOMAIN global_scope =>
                    /\ r.err = "ok"
                    /\ (r.scope = GlobalRef /\ r.addr = global_scope[n])
                            <=> Binders(n) = {}
        /\ (op.kind \in {"getitem", "setitem"} /\ op.err = "ok") =>
            /\ op.scope = Memory_get_address(op.key).scope
            /\ op.addr = Memory_get_address(op.key).addr
            /\ op.scope = GlobalRef <=> Binders(op.key) = {}

\* A read of x in a frame whose chain binds x while the global scope binds
\* x too: the read uses the chain's binding.
C10_Witness ==
    /\ ~Stack_is_empty
    /\ op.kind = "getitem" /\ op.key = "x" /\ op.err = "ok"
    /\ "x" \in DOMAIN global_scope
    /\ Binders("x") # {}
    /\ op.scope = <<curr_frame, Innermost("x")>>
    /\ op.addr # global_scope["x"]

(***************************************************************************)
(* C11: the frame effect of declare.  Every declare returns and binds the  *)
(* name, to the address it allocated, in exactly one scope: the global     *)
(* scope when the stack is empty, the current scope of the top frame       *)
(* otherwise.  Every other binding of that scope, every other scope, the   *)
(* list of frames, the current frame and the depth of every frame's chain  *)
(* are as before.                                                          *)
(***************************************************************************)
\* The scope that ref names has, after the step, the bindings it had and
\* key bound to addr.
BoundIn(ref, key, addr) ==
    IF ref = GlobalRef
    THEN global_scope' = Scope_setitem(global_scope, key, addr)
    ELSE /\ ref[2] \in DOMAIN frames[ref[1]].scopes
         /\ frames'[ref[1]].scopes[ref[2]] =
                Scope_setitem(frames[ref[1]].scopes[ref[2]], key, addr)

\* All scopes but the one ref names are as before, and so is the shape of
\* the stack.
OthersKept(ref) ==
    /\ curr_frame' = curr_frame
    /\ Len(frames') = Len(frames)
    /\ ref # GlobalRef => global_scope' = global_scope
    /\ \A i \in DOMAIN frames :
        /\ frames'[i].frame_name = frames[i].frame_name
        /\ Len(frames'[i].scopes) = Len(frames[i].scopes)
        /\ \A d \in DOMAIN frames[i].scopes :
            <<i, d>> # ref => frames'[i].scopes[d] = frames[i].scopes[d]

C11_DeclareBindsOneScope ==
    [][op'.kind = "declare" =>
        LET ref == IF Stack_is_empty THEN GlobalRef
                   ELSE <<curr_frame, Len(Chain)>>
        IN  /\ op'.err = "ok"
            /\ op'.addr = next_free_address
            /\ BoundIn(ref, op'.key, op'.addr)
            /\ OthersKept(ref)]_vars

(***************************************************************************)
(* C12 (as stated): once an address is a key of raw storage it stays one,  *)
(* and its value changes only in a step that writes to that address, by    *)
(* address or through a name bound to it.                                  *)
(***************************************************************************)
C12_ChangesOnlyThroughWrites ==
    [][\A a \in DOMAIN raw_memory :
        /\ a \in DOMAIN raw_memory'
        /\ ~WritesTo(a) => raw_memory'[a] = raw_memory[a]]_vars

(***************************************************************************)
(* C12 (amended): a key of raw storage stays a key.  The value at an       *)
(* address malloc has returned changes only in a step that writes to that  *)
(* address; the value at any other address changes also in the declare     *)
(* that allocates it.  del_scope and del_frame change no entry, and a read *)
(* by address of an entry returns what is stored, whether or not a live    *)
(* scope still binds the address.                                          *)
(***************************************************************************)
C12_NoReclamation ==
    [][/\ \A a \in DOMAIN raw_memory :
            /\ a \in DOMAIN raw_memory'
            /\ (a \in Range(issued) /\ ~WritesTo(a)) =>
                    raw_memory'[a] = raw_memory[a]
            /\ (a \notin Range(issued) /\ ~WritesTo(a)
                    /\ raw_memory'[a] # raw_memory[a]) =>
                    /\ op'.kind = "declare"
                    /\ op'.addr = a
                    /\ issued' = Append(issued, a)
       /\ op'.kind \in {"del_scope", "del_frame"} => raw_memory' = raw_memory
       /\ (op'.kind = "get_at_address" /\ op'.addr \in DOMAIN raw_memory) =>
            /\ op'.value = raw_memory[op'.addr]
            /\ raw_memory' = raw_memory]_vars

\* A read by address returns the value written to a variable whose scope
\* has been discarded since.
C12_Witness ==
    /\ op.kind = "get_at_address"
    /\ op.addr \in Range(issued) \ BoundAddresses
    /\ op.value \in UserValues
    /\ raw_memory[op.addr] = op.value

(***************************************************************************)
(* C13: new_scope and del_scope with an empty call stack raise, create no  *)
(* scope and change neither the global scope, the stack, raw storage nor   *)
(* the cursor; the declare that follows binds in the global scope.         *)
(***************************************************************************)
C13_BlockOpsNeedFrame ==
    [][/\ (op'.kind \in {"new_scope", "del_scope"} /\ Stack_is_empty) =>
            /\ op'.err = "AttributeError"
            /\ UNCHANGED <<global_scope, frames, curr_frame, raw_memory,
                           next_free_address, issued>>
       /\ (/\ op.kind \in {"new_scope", "del_scope"}
           /\ Stack_is_empty
           /\ op'.kind = "declare") =>
            /\ op'.err = "ok"
            /\ op'.scope = GlobalRef
            /\ frames' = <<>>
            /\ global_scope' =
                    Scope_setitem(global_scope, op'.key, next_free_address)]_vars

\* A new_scope rejected on the empty stack, with a global name declared.
C13_Witness ==
    /\ op.kind = "new_scope" /\ op.err = "AttributeError"
    /\ Stack_is_empty
    /\ frames = <<>>
    /\ global_scope # EmptyScope

(***************************************************************************)
(* C14: declare stores at the address it binds a value chosen by the type  *)
(* name, tested in this order: a name ending in '*' gives a default        *)
(* pointer, whatever names are registered; else a registered name gives a  *)
(* default number; else None is stored.  In the last case the entry        *)
(* exists: the read of the name that follows returns None and stores       *)
(* nothing.                                                                *)
(***************************************************************************)
\* The order of the tests, for every set of registered names.
C14_Order ==
    \A registry \in SUBSET {T_int, T_intptr, T_struct} :
        \A t \in {T_int, T_intptr, T_struct} :
            \A v \in Classify(t, registry) :
                /\ t[Len(t)] = "*" => v[1] = "Pointer"
                /\ (t[Len(t)] # "*" /\ t \in registry) => v[1] = "Number"
                /\ (t[Len(t)] # "*" /\ t \notin registry) => v = None

C14_Step ==
    /\ \A d \in DeclareInputs :
        (declare(d[1], d[2]) /\ op'.err = "ok") =>
            /\ op'.addr = next_free_address
            /\ IF op'.scope = GlobalRef
               THEN global_scope'[d[2]] = op'.addr
               ELSE frames'[op'.scope[1]].scopes[op'.scope[2]][d[2]]
                        = op'.addr
            /\ raw_memory'[op'.addr] = op'.value
            /\ d[1] = T_intptr => op'.value[1] = "Pointer"
            /\ d[1] = T_int => op'.value[1] = "Number"
            /\ d[1] = T_struct => op'.value = None
    /\ (/\ op.kind = "declare" /\ op.err = "ok" /\ op.value = None
        /\ op'.kind = "getitem" /\ op'.key = op.key) =>
            /\ op'.err = "ok"
            /\ op'.addr = op.addr
            /\ op'.value = None
            /\ raw_memory' = raw_memory

C14_DeclareClassification == []C14_Order /\ [][C14_Step]_vars

\* The read of a name just declared with an unregistered type returned None.
C14_Witness ==
    /\ op.kind = "getitem" /\ op.key = "y" /\ op.err = "ok"
    /\ op.value = None
    /\ raw_memory[op.addr] = None

(***************************************************************************)
(* C15: the frame effect of the writes.  set_at_address always returns,    *)
(* and a write of a name that resolves always returns, whatever is or is   *)
(* not stored at the address; each leaves the value at the one address and *)
(* changes no other entry of raw storage, no scope, nothing of the stack   *)
(* and not the cursor.                                                     *)
(***************************************************************************)
\* Raw storage after the step is raw storage before it with value at a.
OnlyEntryChanged(a, value) ==
    /\ DOMAIN raw_memory' = DOMAIN raw_memory \cup {a}
    /\ raw_memory'[a] = value
    /\ \A b \in DOMAIN raw_memory : b # a => raw_memory'[b] = raw_memory[b]

C15_WritesChangeOneEntry ==
    [][/\ op'.kind = "set_at_address" =>
            /\ op'.err = "ok"
            /\ OnlyEntryChanged(op'.addr, op'.value)
       /\ (op'.kind = "setitem" /\ ~Failed(Memory_get_address(op'.key))) =>
            /\ op'.err = "ok"
            /\ op'.addr = Memory_get_address(op'.key).addr
            /\ OnlyEntryChanged(op'.addr, op'.value)
       /\ op'.kind \in {"set_at_address", "setitem"} =>
            UNCHANGED <<global_scope, frames, curr_frame, next_free_address,
                        issued>>]_vars

\* A number written to y, declared with a type that is not numeric, beside
\* another entry of raw storage.
C15_Witness ==
    /\ op.kind = "setitem" /\ op.key = "y" /\ op.err = "ok"
    /\ raw_memory[op.addr] = op.value
    /\ op.value[1] = "Number"
    /\ \E b \in DOMAIN raw_memory : b # op.addr

(***************************************************************************)
(* C16: block exit restores resolution.  In a frame with a current scope,  *)
(* new_scope puts one scope with no bindings on the frame's chain and      *)
(* changes the resolution of no name; the steps that follow in the frame   *)
(* change no scope of the chain but the current one; del_scope in a block  *)
(* takes exactly the current scope off the chain.  So the del_scope that   *)
(* matches a new_scope leaves the chain that the new_scope found: every    *)
(* name resolves as the scopes under the block resolve it, and a name      *)
(* bound only in the block and not in the global scope does not resolve.   *)
(***************************************************************************)
\* The chain without its current scope.
Enclosing(chain) == SubSeq(chain, 1, Len(chain) - 1)

C16_Step ==
    /\ (op'.kind = "new_scope" /\ Len(Chain) >= 1) =>
        /\ op'.err = "ok"
        /\ Chain' = Append(Chain, EmptyScope)
        /\ Enclosing(Chain') = Chain
        /\ \A n \in Names : Memory_get_address(n)' = Memory_get_address(n)
    /\ (op'.kind \in {"declare", "getitem", "setitem", "get_at_address",
                      "set_at_address"} /\ ~Stack_is_empty) =>
        /\ Len(Chain') = Len(Chain)
        /\ Enclosing(Chain') = Enclosing(Chain)
    /\ (op'.kind = "del_scope" /\ Len(Chain) >= 2) =>
        /\ op'.err = "ok"
        /\ Chain' = Enclosing(Chain)
        /\ curr_frame' = curr_frame
        /\ \A n \in Names :
            LET r == Memory_get_address(n)'
                under == Binders(n) \ {Len(Chain)}
            IN  IF under # {}
                THEN LET d == CHOOSE d \in under : \A e \in under : e <= d
                     IN  r = [err |-> "ok", addr |-> Chain[d][n],
                              scope |-> <<curr_frame, d>>]
                ELSE IF n \in DOMAIN global_scope
                     THEN r = [err |-> "ok", addr |-> global_scope[n],
                               scope |-> GlobalRef]
                     ELSE Failed(r)

C16_BlockExitRestores == [][C16_Step]_vars

\* A block has been left: x, bound in the frame's base scope, resolves
\* there, and y, declared in the block, does not resolve.
C16_Witness ==
    /\ op.kind = "del_scope" /\ op.err = "ok"
    /\ Len(Chain) = 1
    /\ "x" \in DOMAIN Chain[1]
    /\ Memory_get_address("x").scope = <<curr_frame, 1>>
    /\ Failed(Memory_get_address("y"))
    /\ Range(issued) \ BoundAddresses # {}

(***************************************************************************)
(* C17: call-stack consistency and LIFO return.  curr_frame is None        *)
(* exactly when frames is empty and is the last frame otherwise.           *)
(* new_frame puts one frame with one empty scope on top of the frames it   *)
(* found; no step changes a frame under the top one; del_frame takes       *)
(* exactly the top frame off.  So the del_frame that matches a new_frame   *)
(* leaves the caller's frame current with the chain, depth and bindings    *)
(* it had at the new_frame, also when caller and callee have one name.     *)
(***************************************************************************)
C17_Consistent ==
    /\ Stack_is_empty <=> frames = <<>>
    /\ curr_frame = Len(frames)

C17_Step ==
    /\ op'.kind = "new_frame" =>
        /\ frames' = Append(frames, [frame_name |-> op'.key,
                                     scopes |-> <<EmptyScope>>])
        /\ curr_frame' = Len(frames) + 1
    /\ op'.kind \notin {"new_frame", "del_frame"} =>
        /\ Len(frames') = Len(frames)
        /\ curr_frame' = curr_frame
        /\ \A i \in 1..(Len(frames) - 1) : frames'[i] = frames[i]
    /\ (op'.kind = "del_frame" /\ frames # <<>>) =>
        /\ op'.err = "ok"
        /\ frames' = SubSeq(frames, 1, Len(frames) - 1)
        /\ curr_frame' = Len(frames) - 1
        /\ Len(frames) >= 2 => Chain' = frames[Len(frames) - 1].scopes

C17_StackLIFO == []C17_Consistent /\ [][C17_Step]_vars

\* Back in the caller after a call: the caller's frame is current and
\* binds x, whose address is the older of two.
C17_Witness ==
    /\ op.kind = "del_frame" /\ op.err = "ok"
    /\ Len(frames) = 1 /\ curr_frame = 1
    /\ Len(Chain) >= 1
    /\ "x" \in DOMAIN Chain[Len(Chain)]
    /\ Len(issued) >= 2
    /\ Chain[Len(Chain)]["x"] = issued[1]

(***************************************************************************)
(* C18: redeclaration in the same scope.  A declare of a name that the     *)
(* scope it binds in already binds returns; the name is then bound, in     *)
(* that scope, to the address just allocated, which is not the old one;    *)
(* the name resolves to it, and the read that follows returns the default  *)
(* the declare stored; the entry at the old address is as it was.          *)
(***************************************************************************)
C18_Step ==
    /\ (/\ op'.kind = "declare"
        /\ DeclareScope # <<curr_frame, 0>>
        /\ op'.key \in DOMAIN ScopeAt(DeclareScope)) =>
            LET old == ScopeAt(DeclareScope)[op'.key]
                new == op'.addr
            IN  /\ op'.err = "ok"
                /\ op'.scope = DeclareScope
                /\ new = next_free_address
                /\ new # old
                /\ \A n \in Names :
                        n = op'.key =>
                            Memory_get_address(n)' =
                                [err |-> "ok", addr |-> new,
                                 scope |-> DeclareScope]
                /\ raw_memory'[new] = op'.value
                /\ op'.value[3] = 0
                /\ old \in DOMAIN raw_memory
                /\ raw_memory'[old] = raw_memory[old]
    /\ (/\ op.kind = "declare" /\ op.err = "ok"
        /\ op'.kind = "getitem" /\ op'.key = op.key) =>
            /\ op'.err = "ok"
            /\ op'.addr = op.addr
            /\ op'.value = op.value

C19_BoundHaveEntries == BoundAddresses \subseteq DOMAIN raw_memory

C19_Step ==
    \A n \in Names :
        (op'.kind = "getitem" /\ op'.key = n
            /\ ~Failed(Memory_get_address(n))) =>
                /\ op'.err = "ok"
                /\ op'.addr = Memory_get_address(n).addr
                /\ op'.addr \in DOMAIN raw_memory
                /\ op'.value = raw_memory[op'.addr]
                /\ raw_memory' = raw_memory

C19_BoundAddressesStored == []C19_BoundHaveEntries /\ [][C19_Step]_vars

\* A pointer read in a frame, with two addresses bound and exactly those
\* two in raw storage.
C19_Witness ==
    /\ frames # <<>>
    /\ op.kind = "getitem" /\ op.err = "ok"
    /\ op.value[1] = "Pointer"
    /\ Cardinality(BoundAddresses) = 2
    /\ DOMAIN raw_memory = BoundAddresses

(***************************************************************************)
(* C20: for every frame on the stack and every name, the membership test   *)
(* of the frame is true exactly when find_key of the frame returns a       *)
(* scope, that is when a scope of the frame's chain binds the name.        *)
(***************************************************************************)
C20_ContainsIffFindKey ==
    \A i \in DOMAIN frames :
        \A n \in Names :
            /\ Frame_contains(frames[i], n)
                    <=> Frame_find_key(frames[i], n) # 0
            /\ Frame_find_key(frames[i], n) # 0
                    <=> \E d \in DOMAIN frames[i].scopes :
                            n \in DOMAIN frames[i].scopes[d]

====
